---- MODULE Spec2Model ----
(***************************************************************************)
(* PyBLE: Inventory of segments and their featural specifications          *)
(* (src/pyble.py).  A DataFrame is a record                                *)
(*    [columns |-> set of column names,                                    *)
(*     rows    |-> sequence of [index |-> label, cells |-> [columns -> v]]]*)
(* in table order.  An Inventory is [segments |-> DataFrame, ref |-> r]    *)
(* where ref tells which DataFrame object self.segments points to: the     *)
(* module-level ALL_SEGMENTS object or an object of its own.               *)
(***************************************************************************)
EXTENDS Integers, Sequences, FiniteSets, TLC

VARIABLES ALL_SEGMENTS, inv, last, calls

vars == <<ALL_SEGMENTS, inv, last, calls>>

(* ---------------- bounds of the exploration ---------------- *)
MaxCalls == 3
MaxRows == 4

(* ---------------- values ---------------- *)
SEGMENT_COL == "Phoneme"

\* the missing marker pandas puts in cells it has no value for (float nan)
NaN == "NaN"

\* elementwise == of pandas / numpy on object cells: nan equals nothing
Eq(a, b) == a # NaN /\ b # NaN /\ a = b

EmptyDict == [k \in {} |-> "0"]

EmptyFrame == [columns |-> {}, rows |-> <<>>]

(* ---------------- the raw dataset and the reference table ---------------- *)
\* phoible.csv: one row per (inventory, segment); columns whose name starts
\* with an uppercase letter are metadata, the others are features
PHOIBLE_DATA ==
  [columns |-> {"InventoryID", "Phoneme", "voice", "nasal"},
   rows |-> << [InventoryID |-> "1", Phoneme |-> "p", voice |-> "-", nasal |-> "-"],
               [InventoryID |-> "1", Phoneme |-> "b", voice |-> "+", nasal |-> "-"],
               [InventoryID |-> "2", Phoneme |-> "p", voice |-> "-", nasal |-> "-"],
               [InventoryID |-> "2", Phoneme |-> "t", voice |-> "-", nasal |-> "-"] >>]

\* col[0].isupper() on the column names of the dataset
IsUpperInitial(col) == col \in {"InventoryID", "Phoneme"}

NONFEATURE_COLS == {col \in PHOIBLE_DATA.columns : IsUpperInitial(col)}

\* DataFrame.drop(labels, axis=1) on the raw rows (no index yet)
RawDrop(data, labels) ==
  [columns |-> data.columns \ labels,
   rows |-> [i \in 1..Len(data.rows) |->
               [c \in data.columns \ labels |-> data.rows[i][c]]]]

\* DataFrame.drop_duplicates(subset): keep the first row of every key
drop_duplicates(data, subset) ==
  [columns |-> data.columns,
   rows |-> LET keep(i) == \A j \in 1..(i - 1) : data.rows[j][subset] # data.rows[i][subset]
                F[i \in 0..Len(data.rows)] ==
                  IF i = 0 THEN <<>>
                  ELSE IF keep(i) THEN Append(F[i - 1], data.rows[i]) ELSE F[i - 1]
            IN F[Len(data.rows)]]

\* DataFrame.set_index(col, drop=False): the index label of a row is its
\* value in col, and the column stays
set_index(data, col) ==
  [columns |-> data.columns,
   rows |-> [i \in 1..Len(data.rows) |->
               [index |-> data.rows[i][col], cells |-> data.rows[i]]]]

LoadAllSegments ==
  set_index(drop_duplicates(RawDrop(PHOIBLE_DATA, NONFEATURE_COLS \ {SEGMENT_COL}),
                            SEGMENT_COL),
            SEGMENT_COL)

(* ---------------- helpers on DataFrames ---------------- *)
IndexList(df) == [i \in 1..Len(df.rows) |-> df.rows[i].index]

IndexSet(df) == {df.rows[i].index : i \in 1..Len(df.rows)}

\* df[mask] with a boolean array: the rows whose mask entry is true, in order
getitem_bool_array(df, mask) ==
  LET F[i \in 0..Len(df.rows)] ==
        IF i = 0 THEN <<>>
        ELSE IF mask[i] THEN Append(F[i - 1], df.rows[i]) ELSE F[i - 1]
  IN [columns |-> df.columns, rows |-> F[Len(df.rows)]]

Outcome(status, segments) == [status |-> status, segments |-> segments]

(* ---------------- Inventory ---------------- *)
Inventory(segments_df, ref) == [segments |-> segments_df, ref |-> ref]

\* ALL_SEGMENTS[ALL_SEGMENTS[SEGMENT_COL].isin(ipa)]: a new, filtered frame
from_ipa(all, ipa) ==
  Inventory(getitem_bool_array(all,
              [i \in 1..Len(all.rows) |-> all.rows[i].cells[SEGMENT_COL] \in ipa]),
            "own")

\* cls(ALL_SEGMENTS): the Inventory holds the reference table itself
from_all_phoible(all) == Inventory(all, "ALL_SEGMENTS")

\* np.logical_and.reduce([self.segments[k] == v for k, v in items]):
\* KeyError when a key is no column; the scalar True for the empty list
\* (the identity of logical_and); otherwise the row-wise conjunction
logical_and_reduce(df, feature_matrix) ==
  IF \E k \in DOMAIN feature_matrix : k \notin df.columns
    THEN [kind |-> "KeyError", mask |-> <<>>]
  ELSE IF DOMAIN feature_matrix = {}
    THEN [kind |-> "scalar", mask |-> <<>>]
  ELSE [kind |-> "array",
        mask |-> [i \in 1..Len(df.rows) |->
                    \A k \in DOMAIN feature_matrix :
                       Eq(df.rows[i].cells[k], feature_matrix[k])]]

\* Inventory.matching_segments: self.segments[<reduced mask>]; a scalar key
\* is looked up as a column label, and True is no column label
matching_segments(df, feature_matrix) ==
  LET key == logical_and_reduce(df, feature_matrix)
  IN IF key.kind = "array"
       THEN Outcome("ok", getitem_bool_array(df, key.mask))
       ELSE Outcome("KeyError", EmptyFrame)

\* DataFrame.assign(**feature_matrix): a new frame in which every row has
\* the given value in each named column; unknown names become new columns
assign(df, feature_matrix) ==
  [columns |-> df.columns \cup DOMAIN feature_matrix,
   rows |-> [i \in 1..Len(df.rows) |->
               [index |-> df.rows[i].index,
                cells |-> [c \in df.columns \cup DOMAIN feature_matrix |->
                             IF c \in DOMAIN feature_matrix THEN feature_matrix[c]
                             ELSE df.rows[i].cells[c]]]]]

\* segment_series.drop(SEGMENT_COL): the row without the key entry
RowFeatures(row) == [c \in (DOMAIN row.cells) \ {SEGMENT_COL} |-> row.cells[c]]

\* Inventory.transform: for every row of the modified frame, the index list
\* of transform_targets.matching_segments(features); a dict keyed by the
\* index label, filled in row order (a later row with the same label wins)
transform(df, feature_matrix, targets) ==
  LET modified == assign(df, feature_matrix)
      n == Len(modified.rows)
      match(i) == matching_segments(targets, RowFeatures(modified.rows[i]))
      lastRow(k) == CHOOSE i \in 1..n :
                      /\ modified.rows[i].index = k
                      /\ \A j \in (i + 1)..n : modified.rows[j].index # k
  IN IF n = 0 THEN [status |-> "ok", ret_map |-> EmptyDict]
     ELSE IF SEGMENT_COL \notin modified.columns
       THEN [status |-> "KeyError", ret_map |-> EmptyDict]
     ELSE IF \E i \in 1..n : match(i).status # "ok"
       THEN [status |-> "KeyError", ret_map |-> EmptyDict]
     ELSE [status |-> "ok",
           ret_map |-> [k \in IndexSet(modified) |-> IndexList(match(lastRow(k)).segments)]]

\* the dict after lines 122-125 of add: the key entry is set, then every
\* column of the inventory that the dict lacks gets default_value
AddFilledMatrix(df, segment, feature_matrix, default_value) ==
  [c \in DOMAIN feature_matrix \cup {SEGMENT_COL} \cup df.columns |->
     IF c = SEGMENT_COL THEN segment
     ELSE IF c \in DOMAIN feature_matrix THEN feature_matrix[c]
     ELSE default_value]

\* variant of reindex_fill: the existing rows get default_value
reindex_fill_default(default_value) == default_value

\* DataFrame.append(dict, ignore_index=True) reindexes the existing rows to
\* the union of the columns: a column they did not have is filled with nan
reindex_fill(default_value) == NaN

\* Inventory.add: append the filled dict as a row, then set_index on the key
\* column (drop=False); feature_matrix is the caller's dict, updated in place
add(df, segment, feature_matrix, default_value) ==
  LET filled == AddFilledMatrix(df, segment, feature_matrix, default_value)
      cols == df.columns \cup DOMAIN filled
      old(i) == [c \in cols |-> IF c \in df.columns THEN df.rows[i].cells[c]
                                ELSE reindex_fill(default_value)]
      appended == [i \in 1..(Len(df.rows) + 1) |->
                     IF i <= Len(df.rows) THEN old(i) ELSE filled]
  IN [status |-> "ok",
      segments |-> set_index([columns |-> cols, rows |-> appended], SEGMENT_COL),
      fm_after |-> filled]

\* DataFrame.drop(labels, axis=1): a new frame without the named columns
DropColumns(df, labels) ==
  [columns |-> df.columns \ labels,
   rows |-> [i \in 1..Len(df.rows) |->
               [index |-> df.rows[i].index,
                cells |-> [c \in df.columns \ labels |-> df.rows[i].cells[c]]]]]

\* variant of drop_features: labels that are no column are skipped
drop_features_ignore(df, features) == Outcome("ok", DropColumns(df, features))

\* Inventory.drop_features: KeyError when a label is not a column
drop_features(df, features) ==
  IF features \subseteq df.columns
    THEN Outcome("ok", DropColumns(df, features))
    ELSE Outcome("KeyError", EmptyFrame)

\* variant of redundant_candidates: the key column is not visited
redundant_candidates_features(df) == df.columns \ {SEGMENT_COL}

\* the columns the loop of drop_redundant_features visits
redundant_candidates(df) == df.columns

\* (column_values[0] == column_values).all()
all_same(df, feature) ==
  \A i \in 1..Len(df.rows) : Eq(df.rows[1].cells[feature], df.rows[i].cells[feature])

\* variant of drop_redundant_features: the columns are dropped from
\* self.segments itself, not from a copy
drop_redundant_features_inplace(df) ==
  IF df.columns # {} /\ Len(df.rows) = 0
    THEN [status |-> "IndexError", segments |-> EmptyFrame, self_after |-> df]
    ELSE LET output_segments == DropColumns(df, {f \in df.columns : all_same(df, f)})
         IN [status |-> "ok", segments |-> output_segments, self_after |-> output_segments]

\* Inventory.drop_redundant_features: works on a copy of self.segments;
\* column_values[0] of an empty column raises IndexError
drop_redundant_features(df) ==
  IF redundant_candidates(df) # {} /\ Len(df.rows) = 0
    THEN [status |-> "IndexError", segments |-> EmptyFrame, self_after |-> df]
    ELSE [status |-> "ok",
          segments |-> DropColumns(df, {f \in redundant_candidates(df) : all_same(df, f)}),
          self_after |-> df]

(* ---------------- inputs ---------------- *)
IpaLists == SUBSET {"p", "b", "?"}

\* feature matrices: voice is a feature of the dataset, tone is not
FeatureMatrices ==
  {EmptyDict}
  \cup [{"voice"} -> {"+", "-"}]
  \cup [{"tone"} -> {"+"}]
  \cup {[voice |-> v, tone |-> "+"] : v \in {"+", "-"}}
  \cup {[k \in {SEGMENT_COL} |-> "p"]}

NewSegments == {"p", "x"}

DefaultValues == {"0", "-"}

FeatureLists == SUBSET {SEGMENT_COL, "voice", "tone"}

\* what the caller passes as transform_targets: nothing (None), the full
\* reference inventory, or an inventory built from a list of symbols
TargetChoices == {"None", "from_all_phoible", "from_ipa"}

TargetsOf(choice) ==
  IF choice = "None" THEN inv
  ELSE IF choice = "from_all_phoible" THEN from_all_phoible(ALL_SEGMENTS)
  ELSE from_ipa(ALL_SEGMENTS, {"p", "b"})

NoCall ==
  [op |-> "none", status |-> "ok", self_ref |-> "own",
   self_before |-> EmptyFrame, self_after |-> EmptyFrame,
   fm_before |-> EmptyDict, fm_after |-> EmptyDict,
   targets_before |-> EmptyFrame, targets_after |-> EmptyFrame,
   ret |-> EmptyFrame, ret_map |-> EmptyDict,
   segment |-> "", default_value |-> "", features |-> {}]

(* ---------------- state machine ---------------- *)
Init ==
  /\ ALL_SEGMENTS = LoadAllSegments
  /\ inv = from_all_phoible(LoadAllSegments)
  /\ last = NoCall
  /\ calls = 0

\* the contents of the ALL_SEGMENTS object after a call that left the
\* receiver's frame as self_after and the targets' frame as targets_after
AllAfter(self_ref, self_after, targets_ref, targets_after) ==
  IF self_ref = "ALL_SEGMENTS" THEN self_after
  ELSE IF targets_ref = "ALL_SEGMENTS" THEN targets_after
  ELSE ALL_SEGMENTS

FromIpa ==
  \E ipa \in IpaLists :
    /\ calls < MaxCalls
    /\ inv' = from_ipa(ALL_SEGMENTS, ipa)
    /\ last' = [NoCall EXCEPT !.op = "from_ipa", !.features = ipa,
                              !.self_before = ALL_SEGMENTS, !.self_after = ALL_SEGMENTS,
                              !.ret = from_ipa(ALL_SEGMENTS, ipa).segments]
    /\ calls' = calls + 1
    /\ UNCHANGED ALL_SEGMENTS

FromAllPhoible ==
  /\ calls < MaxCalls
  /\ inv' = from_all_phoible(ALL_SEGMENTS)
  /\ last' = [NoCall EXCEPT !.op = "from_all_phoible",
                            !.self_before = ALL_SEGMENTS, !.self_after = ALL_SEGMENTS,
                            !.ret = ALL_SEGMENTS]
  /\ calls' = calls + 1
  /\ UNCHANGED ALL_SEGMENTS

MatchingSegments ==
  \E fm \in FeatureMatrices :
    LET out == matching_segments(inv.segments, fm)
    IN /\ calls < MaxCalls
       /\ inv' = IF out.status = "ok" THEN Inventory(out.segments, "own") ELSE inv
       /\ last' = [NoCall EXCEPT !.op = "matching_segments", !.status = out.status, !.self_ref = inv.ref,
                                 !.self_before = inv.segments, !.self_after = inv.segments,
                                 !.fm_before = fm, !.fm_after = fm,
                                 !.ret = out.segments]
       /\ calls' = calls + 1
       /\ ALL_SEGMENTS' = AllAfter(inv.ref, inv.segments, "own", EmptyFrame)

Transform ==
  \E fm \in FeatureMatrices, choice \in TargetChoices :
    LET T == TargetsOf(choice)
        out == transform(inv.segments, fm, T.segments)
    IN /\ calls < MaxCalls
       /\ inv' = inv
       /\ last' = [NoCall EXCEPT !.op = "transform", !.status = out.status, !.self_ref = inv.ref,
                                 !.self_before = inv.segments, !.self_after = inv.segments,
                                 !.fm_before = fm, !.fm_after = fm,
                                 !.targets_before = T.segments, !.targets_after = T.segments,
                                 !.ret_map = out.ret_map]
       /\ calls' = calls + 1
       /\ ALL_SEGMENTS' = AllAfter(inv.ref, inv.segments, T.ref, T.segments)

Add ==
  \E segment \in NewSegments, fm \in FeatureMatrices, default_value \in DefaultValues :
    LET out == add(inv.segments, segment, fm, default_value)
    IN /\ calls < MaxCalls
       /\ Len(inv.segments.rows) < MaxRows
       /\ inv' = Inventory(out.segments, "own")
       /\ last' = [NoCall EXCEPT !.op = "add", !.status = out.status, !.self_ref = inv.ref,
                                 !.self_before = inv.segments, !.self_after = inv.segments,
                                 !.fm_before = fm, !.fm_after = out.fm_after,
                                 !.ret = out.segments,
                                 !.segment = segment, !.default_value = default_value]
       /\ calls' = calls + 1
       /\ ALL_SEGMENTS' = AllAfter(inv.ref, inv.segments, "own", EmptyFrame)

DropFeatures ==
  \E features \in FeatureLists :
    LET out == drop_features(inv.segments, features)
    IN /\ calls < MaxCalls
       /\ inv' = IF out.status = "ok" THEN Inventory(out.segments, "own") ELSE inv
       /\ last' = [NoCall EXCEPT !.op = "drop_features", !.status = out.status, !.self_ref = inv.ref,
                                 !.self_before = inv.segments, !.self_after = inv.segments,
                                 !.ret = out.segments, !.features = features]
       /\ calls' = calls + 1
       /\ ALL_SEGMENTS' = AllAfter(inv.ref, inv.segments, "own", EmptyFrame)

DropRedundantFeatures ==
  LET out == drop_redundant_features(inv.segments)
  IN /\ calls < MaxCalls
     /\ inv' = IF out.status = "ok" THEN Inventory(out.segments, "own")
               ELSE [inv EXCEPT !.segments = out.self_after]
     /\ last' = [NoCall EXCEPT !.op = "drop_redundant_features", !.status = out.status, !.self_ref = inv.ref,
                               !.self_before = inv.segments, !.self_after = out.self_after,
                               !.ret = out.segments]
     /\ calls' = calls + 1
     /\ ALL_SEGMENTS' = AllAfter(inv.ref, out.self_after, "own", EmptyFrame)

Next ==
  \/ FromIpa
  \/ FromAllPhoible
  \/ MatchingSegments
  \/ Transform
  \/ Add
  \/ DropFeatures
  \/ DropRedundantFeatures

Spec == Init /\ [][Next]_vars

(* ======================= claims ======================= *)
Called(op) == last.op = op

I == last.self_before

FeatureColumns(df) == df.columns \ {SEGMENT_COL}

HasPhonemeColumn(df) == SEGMENT_COL \in df.columns

\* the rows of df that satisfy test, in table order
RowsWhere(df, test(_)) ==
  LET F[i \in 0..Len(df.rows)] ==
        IF i = 0 THEN <<>>
        ELSE IF test(df.rows[i]) THEN Append(F[i - 1], df.rows[i]) ELSE F[i - 1]
  IN F[Len(df.rows)]

RowMatches(row, m) == \A f \in DOMAIN m : row.cells[f] = m[f]

\* C1: matching_segments(m), for m over columns of I, returns exactly the
\* rows of I that equal m on every feature of m, with their values, in
\* table order
C1_MatchingExact ==
  (Called("matching_segments") /\ DOMAIN last.fm_before \subseteq I.columns)
    => /\ last.status = "ok"
       /\ last.ret = [columns |-> I.columns,
                      rows |-> RowsWhere(I, LAMBDA r : RowMatches(r, last.fm_before))]

\* C2: matching_segments({}) succeeds and returns the segments and values
\* of I
C2_EmptyIsIdentity ==
  (Called("matching_segments") /\ DOMAIN last.fm_before = {})
    => (last.status = "ok" /\ last.ret = I)

\* s with the features of m overwritten
Overwritten(row, m) ==
  [c \in DOMAIN row.cells \cup DOMAIN m |-> IF c \in DOMAIN m THEN m[c] ELSE row.cells[c]]

\* the keys, in T's order, of the rows of T equal to sp on every feature
\* column of T
TargetKeys(T, sp) ==
  LET hit(t) == \A c \in FeatureColumns(T) : c \in DOMAIN sp /\ t.cells[c] = sp[c]
      hits == RowsWhere(T, hit)
  IN [i \in 1..Len(hits) |-> hits[i].index]

\* C3: transform(m, T) never fails and maps every segment s of I to the
\* keys, in T's order, of the segments of T that equal s' on every feature
\* column of T
C3_TransformTotal ==
  Called("transform")
    => /\ last.status = "ok"
       /\ DOMAIN last.ret_map = IndexSet(I)
       /\ \A i \in 1..Len(I.rows) :
            last.ret_map[I.rows[i].index]
              = TargetKeys(last.targets_before, Overwritten(I.rows[i], last.fm_before))

\* the rows of the result of add that were rows of I, and the added row
OldRow(i) == last.ret.rows[i]

NewRow == last.ret.rows[Len(last.ret.rows)]

AddShape ==
  /\ last.status = "ok"
  /\ Len(last.ret.rows) = Len(I.rows) + 1
  /\ last.ret.columns = I.columns \cup DOMAIN last.fm_before \cup {SEGMENT_COL}
  /\ NewRow.cells[SEGMENT_COL] = last.segment
  /\ \A f \in DOMAIN last.fm_before \ {SEGMENT_COL} : NewRow.cells[f] = last.fm_before[f]
  /\ \A c \in I.columns \ (DOMAIN last.fm_before \cup {SEGMENT_COL}) :
       NewRow.cells[c] = last.default_value
  /\ \A i \in 1..Len(I.rows) : \A c \in I.columns : OldRow(i).cells[c] = I.rows[i].cells[c]

\* C4 as stated: after add every cell holds an explicit value, the
\* pre-existing segments having default_value in the introduced columns
C4_AllCellsExplicit ==
  Called("add")
    => /\ AddShape
       /\ \A i \in 1..Len(I.rows) : \A c \in last.ret.columns \ I.columns :
            OldRow(i).cells[c] = last.default_value
       /\ \A i \in 1..Len(last.ret.rows) : \A c \in last.ret.columns :
            last.ret.rows[i].cells[c] # NaN

\* C4 amended: after add, the pre-existing segments keep their values and
\* hold the missing marker in every column add introduced; the new segment
\* has its key, m[f] for every feature of m, and default_value in the
\* columns of I that m does not mention
C4_OldRowsGetMissing ==
  Called("add")
    => /\ AddShape
       /\ \A i \in 1..Len(I.rows) : \A c \in last.ret.columns \ I.columns :
            OldRow(i).cells[c] = NaN

C4_Witness ==
  /\ Called("add")
  /\ Len(I.rows) > 0
  /\ "tone" \in DOMAIN last.fm_before /\ "tone" \notin I.columns
  /\ "nasal" \in I.columns
  /\ last.default_value = "-"
  /\ OldRow(1).cells["tone"] = NaN
  /\ NewRow.cells["nasal"] = "-"

\* C5: every operation leaves the receiver's table, the transform targets
\* and the caller's feature matrix as they were before the call
C5_InputsUnchanged ==
  /\ last.self_after = last.self_before
  /\ last.targets_after = last.targets_before
  /\ last.fm_after = last.fm_before

\* C6: no two rows of an Inventory carry the same segment key
C6_KeysUnique ==
  \A i, j \in 1..Len(inv.segments.rows) :
    inv.segments.rows[i].index = inv.segments.rows[j].index => i = j

\* C7: an unknown feature name makes matching_segments and drop_features
\* fail, whatever else is supplied and whatever the Inventory holds;
\* drop_features with known names removes exactly those columns and keeps
\* the segments
C7_UnknownFeatureFails ==
  /\ (Called("matching_segments") /\ ~(DOMAIN last.fm_before \subseteq I.columns))
       => (last.status = "KeyError" /\ inv.segments = I)
  /\ (Called("drop_features") /\ ~(last.features \subseteq I.columns))
       => (last.status = "KeyError" /\ inv.segments = I)
  /\ (Called("drop_features") /\ last.features \subseteq I.columns)
       => /\ last.status = "ok"
          /\ last.ret.columns = I.columns \ last.features
          /\ IndexList(last.ret) = IndexList(I)
          /\ \A i \in 1..Len(I.rows) : \A c \in last.ret.columns :
               last.ret.rows[i].cells[c] = I.rows[i].cells[c]

C7_Witness ==
  /\ Called("drop_features")
  /\ last.status = "KeyError"
  /\ Len(I.rows) = 0
  /\ "voice" \in last.features /\ "voice" \in I.columns
  /\ "tone" \in last.features /\ "tone" \notin I.columns

\* the feature columns on which at least two segments differ
Distinguishing(df) ==
  {f \in FeatureColumns(df) :
     \E i, j \in 1..Len(df.rows) : df.rows[i].cells[f] # df.rows[j].cells[f]}

\* C8: drop_redundant_features returns the segments of I with exactly the
\* feature columns on which at least two segments of I differ
C8_DropsExactlyUniform ==
  Called("drop_redundant_features")
    => /\ last.status = "ok"
       /\ IndexList(last.ret) = IndexList(I)
       /\ FeatureColumns(last.ret) = Distinguishing(I)

\* C9: the reference universe is as loaded, one row per distinct segment
\* key of the raw dataset, whatever was called on whichever Inventory
C9_ReferenceUnchanged ==
  /\ ALL_SEGMENTS = LoadAllSegments
  /\ IndexSet(ALL_SEGMENTS) = {PHOIBLE_DATA.rows[i][SEGMENT_COL] : i \in 1..Len(PHOIBLE_DATA.rows)}
  /\ Len(ALL_SEGMENTS.rows) = Cardinality(IndexSet(ALL_SEGMENTS))

C9_Witness ==
  /\ Called("drop_redundant_features")
  /\ last.self_ref = "ALL_SEGMENTS"
  /\ last.status = "ok"
  /\ last.ret.columns # ALL_SEGMENTS.columns

SameKey(df) == \A i \in 1..Len(df.rows) : df.rows[i].index = df.rows[1].index

====
